---- MODULE Spec2Model ----
(***************************************************************************)
(* Presko: maintenance lifecycle and bulk notification core.               *)
(*                                                                         *)
(*   Spec / FairSpec   the bulk SMS handler of pages/api/one-sms.ts        *)
(*   SpecStatus        devices rows (generated due dates) classified by    *)
(*                     getDeviceStatus of ClientDevicesTable.tsx           *)
(***************************************************************************)
EXTENDS Integers, Naturals, Sequences, FiniteSets, TLC

VARIABLES
  \* ---- one-sms.ts: one invocation of handler -------------------------
  method,        \* req.method
  pc,            \* position of the handler between two awaits
  clients,       \* rows of `clients` (line 30), <<>> when it is null
  clientsNull,   \* whether `clients` is null
  idx,           \* 1-based position of the for..of loop (line 48)
  results,       \* `results` (line 41)
  successCount,  \* line 42
  failureCount,  \* line 43
  respOk,        \* response.ok of the response being read (line 95)
  response,      \* what res.status(..).json(..) sent, NoResponse before
  \* ---- history of the handler's effects on its environment -----------
  obtained,      \* getAllClientsForSMS has resolved
  inflight,      \* recipients whose transport call is outstanding
  calls,         \* recipients for which fetch was issued, in issue order
  delays,        \* recipients after which the setTimeout of line 124 ran
  transport,     \* outcome of each finished transport call, in order
  \* ---- ClientDevicesTable.tsx: one devices row and one rendering -----
  device,        \* a row of public.devices
  now,           \* the instant `new Date()` returns (line 54)
  status,        \* what getDeviceStatus returned, "unset" before
  \* ---- admin dashboard: DevicesOverdueCard / DevicesDueCard -----------
  card,          \* which card is rendered: "overdue" or "dueSoon"
  devices,       \* the `devices` prop of the card
  grouped,       \* the card has computed its groups
  overdueGroups, \* clientGroups of DevicesOverdueCard (line 65)
  dueGroups,     \* groupedClients of DevicesDueCard (line 79)
  \* ---- ClientDevicesTable.tsx: pagination ----------------------------
  deviceCount,   \* devices.length of the table's `devices` prop
  currentPage    \* the state of line 35

smsVars == <<method, pc, clients, clientsNull, idx, results, successCount,
             failureCount, respOk, response, obtained, inflight, calls,
             delays, transport>>
devVars == <<device, now, status>>
dashVars == <<card, devices, grouped, overdueGroups, dueGroups>>
pageVars == <<deviceCount, currentPage>>
vars == <<smsVars, devVars, dashVars, pageVars>>

\* ---------------------------------------------------------------------
\* Bounds of the model
\* ---------------------------------------------------------------------
MaxClients == 3      \* longest recipient list
FirstYear == 2023    \* first year of the dates a devices row can hold
YearSpan == 2        \* number of years of dates (2024 is a leap year)
TicksPerDay == 4     \* instants the clock tells apart within one day
MaxItems == 3        \* longest `devices` list handed to a dashboard card
MaxDevices == 24     \* longest `devices` list handed to the devices table

\* ---------------------------------------------------------------------
\* Values
\* ---------------------------------------------------------------------
NoField == "absent"      \* an optional field that is not set

\* rows getAllClientsForSMS can return: mobile, name and qr_code may each
\* be empty
Recipients ==
  { [id |-> 1, mobile |-> "09170000001", name |-> "Ana", qr_code |-> "qr-ana"],
    [id |-> 2, mobile |-> "09170000002", name |-> "",    qr_code |-> "qr-two"],
    [id |-> 3, mobile |-> "",            name |-> "Ben", qr_code |-> "qr-ben"],
    [id |-> 4, mobile |-> "09170000004", name |-> "Cy",  qr_code |-> ""],
    [id |-> 5, mobile |-> "",            name |-> "",    qr_code |-> ""] }

ClientLists == UNION { [1..n -> Recipients] : n \in 0..MaxClients }

\* what getAllClientsForSMS can resolve to: null, or a list of rows
Fetched == { [isNull |-> TRUE, rows |-> <<>>] }
             \cup { [isNull |-> FALSE, rows |-> cs] : cs \in ClientLists }

\* response bodies of the gateway and values a failed await can throw
Bodies == { "", "[{\"message_id\":1}]", "{\"apikey\":[\"invalid\"]}" }
Thrown == { [isError |-> TRUE,  message |-> "fetch failed"],
            [isError |-> TRUE,  message |-> ""],
            [isError |-> FALSE, message |-> "boom"] }

Methods == { "POST", "GET" }

\* a || b on strings: the empty string is falsy
OrElse(a, b) == IF a = "" THEN b ELSE a

\* !client.mobile || !client.qr_code (line 50)
Ineligible(client) == client.mobile = "" \/ client.qr_code = ""

\* the object pushed at lines 51-56
MissingResult(client) ==
  [ mobile |-> OrElse(client.mobile, "N/A"),
    name |-> OrElse(client.name, "Unknown"),
    success |-> FALSE,
    error |-> "Missing mobile number or QR code",
    messageId |-> NoField ]

\* the object pushed at lines 106-111
SentResult(client) ==
  [ mobile |-> client.mobile,
    name |-> OrElse(client.name, "Unknown"),
    success |-> TRUE,
    error |-> NoField,
    messageId |-> "sent" ]

\* the object pushed at lines 114-119
RejectedResult(client, responseData) ==
  [ mobile |-> client.mobile,
    name |-> OrElse(client.name, "Unknown"),
    success |-> FALSE,
    error |-> OrElse(responseData, "SMS sending failed"),
    messageId |-> NoField ]

\* the object pushed at lines 127-132
CaughtResult(client, e) ==
  [ mobile |-> OrElse(client.mobile, "N/A"),
    name |-> OrElse(client.name, "Unknown"),
    success |-> FALSE,
    error |-> IF e.isError THEN e.message ELSE "Unknown error",
    messageId |-> NoField ]

\* the payload of lines 33-38
EmptyReport ==
  [ status |-> 200, totalClients |-> 0, successCount |-> 0,
    failureCount |-> 0, results |-> <<>>, error |-> NoField ]

\* the payload of lines 137-142
Report ==
  [ status |-> 200, totalClients |-> Len(clients),
    successCount |-> successCount, failureCount |-> failureCount,
    results |-> results, error |-> NoField ]

\* the payload of lines 26 and 146-148
ErrorReport(code, text) ==
  [ status |-> code, totalClients |-> 0, successCount |-> 0,
    failureCount |-> 0, results |-> <<>>, error |-> text ]

\* nothing sent yet
NoResponse == ErrorReport(0, NoField)

\* ---------------------------------------------------------------------
\* handler (one-sms.ts)
\* ---------------------------------------------------------------------
SmsInit ==
  /\ method \in Methods
  /\ pc = "start"
  /\ clients = <<>>
  /\ clientsNull = FALSE
  /\ idx = 1
  /\ results = <<>>
  /\ successCount = 0
  /\ failureCount = 0
  /\ respOk = FALSE
  /\ response = NoResponse
  /\ obtained = FALSE
  /\ inflight = {}
  /\ calls = <<>>
  /\ delays = <<>>
  /\ transport = <<>>

\* lines 25-27
MethodNotAllowed ==
  /\ pc = "start"
  /\ method # "POST"
  /\ pc' = "responded"
  /\ response' = ErrorReport(405, "Method not allowed")
  /\ UNCHANGED <<method, clients, clientsNull, idx, results, successCount,
                 failureCount, respOk, inflight, calls, delays, transport,
                 obtained>>
  /\ UNCHANGED <<devVars, dashVars, pageVars>>

\* Faulty variant of GetClients: an empty list is answered as an error
GetClients_EmptyIsError ==
  /\ pc = "start"
  /\ method = "POST"
  /\ \E got \in Fetched :
       /\ clients' = got.rows
       /\ clientsNull' = got.isNull
       /\ obtained' = TRUE
       /\ IF got.isNull \/ Len(got.rows) = 0
            THEN /\ pc' = "responded"
                 /\ response' = ErrorReport(404, "No clients found")
            ELSE /\ pc' = "loop"
                 /\ response' = response
  /\ UNCHANGED <<method, idx, results, successCount, failureCount, respOk,
                 inflight, calls, delays, transport>>
  /\ UNCHANGED <<devVars, dashVars, pageVars>>

\* lines 30-39: the await of getAllClientsForSMS resolves
GetClients ==
  /\ pc = "start"
  /\ method = "POST"
  /\ \E got \in Fetched :
       /\ clients' = got.rows
       /\ clientsNull' = got.isNull
       /\ obtained' = TRUE
       /\ IF got.isNull \/ Len(got.rows) = 0
            THEN /\ pc' = "responded"
                 /\ response' = EmptyReport
            ELSE /\ pc' = "loop"
                 /\ response' = response
  /\ UNCHANGED <<method, idx, results, successCount, failureCount, respOk,
                 inflight, calls, delays, transport>>
  /\ UNCHANGED <<devVars, dashVars, pageVars>>

\* lines 30, 144-148: the await of getAllClientsForSMS rejects
GetClientsThrows ==
  /\ pc = "start"
  /\ method = "POST"
  /\ \E e \in Thrown :
       response' = ErrorReport(500, IF e.isError THEN e.message
                                    ELSE "Server error occurred")
  /\ pc' = "responded"
  /\ UNCHANGED <<method, clients, clientsNull, idx, results, successCount,
                 failureCount, respOk, inflight, calls, delays, transport,
                 obtained>>
  /\ UNCHANGED <<devVars, dashVars, pageVars>>

\* Faulty variant of SkipIneligible: `continue` without recording a result
SkipIneligible_NoRecord ==
  /\ pc = "loop"
  /\ idx <= Len(clients)
  /\ Ineligible(clients[idx])
  /\ idx' = idx + 1
  /\ UNCHANGED <<method, pc, clients, clientsNull, results, successCount,
                 failureCount, respOk, response, inflight, calls, delays,
                 transport, obtained>>
  /\ UNCHANGED <<devVars, dashVars, pageVars>>

\* Faulty variant of SkipIneligible: no `continue`, so that the failure is
\* recorded and the iteration then runs on to the timer of line 124
SkipIneligible_Delay ==
  /\ pc = "loop"
  /\ idx <= Len(clients)
  /\ Ineligible(clients[idx])
  /\ results' = Append(results, MissingResult(clients[idx]))
  /\ failureCount' = failureCount + 1
  /\ delays' = Append(delays, idx)
  /\ pc' = "delay"
  /\ UNCHANGED <<method, clients, clientsNull, idx, successCount, respOk,
                 response, inflight, calls, transport, obtained>>
  /\ UNCHANGED <<devVars, dashVars, pageVars>>

\* Faulty variant of SkipIneligible: the failure is recorded but not counted
SkipIneligible_NoCount ==
  /\ pc = "loop"
  /\ idx <= Len(clients)
  /\ Ineligible(clients[idx])
  /\ results' = Append(results, MissingResult(clients[idx]))
  /\ idx' = idx + 1
  /\ UNCHANGED <<method, pc, clients, clientsNull, successCount, failureCount,
                 respOk, response, inflight, calls, delays, transport,
                 obtained>>
  /\ UNCHANGED <<devVars, dashVars, pageVars>>

\* lines 48-59: an ineligible recipient is recorded and the loop continues
SkipIneligible ==
  /\ pc = "loop"
  /\ idx <= Len(clients)
  /\ Ineligible(clients[idx])
  /\ results' = Append(results, MissingResult(clients[idx]))
  /\ failureCount' = failureCount + 1
  /\ idx' = idx + 1
  /\ UNCHANGED <<method, pc, clients, clientsNull, successCount, respOk,
                 response, inflight, calls, delays, transport, obtained>>
  /\ UNCHANGED <<devVars, dashVars, pageVars>>

\* Faulty variant of SendSMS: fetch is issued without being awaited
SendSMS_NoAwait ==
  /\ pc = "loop"
  /\ idx <= Len(clients)
  /\ ~Ineligible(clients[idx])
  /\ inflight' = inflight \cup {idx}
  /\ calls' = Append(calls, idx)
  /\ idx' = idx + 1
  /\ UNCHANGED <<method, pc, clients, clientsNull, results, successCount,
                 failureCount, respOk, response, delays, transport,
                 obtained>>
  /\ UNCHANGED <<devVars, dashVars, pageVars>>

\* lines 48-99: an eligible recipient; runs up to the await of fetch
SendSMS ==
  /\ pc = "loop"
  /\ idx <= Len(clients)
  /\ ~Ineligible(clients[idx])
  /\ inflight' = inflight \cup {idx}
  /\ calls' = Append(calls, idx)
  /\ pc' = "fetch"
  /\ UNCHANGED <<method, clients, clientsNull, idx, results, successCount,
                 failureCount, respOk, response, delays, transport,
                 obtained>>
  /\ UNCHANGED <<devVars, dashVars, pageVars>>

\* line 95: the await of fetch resolves with a response
FetchReturns ==
  /\ pc = "fetch"
  /\ \E ok \in BOOLEAN : respOk' = ok
  /\ pc' = "text"
  /\ UNCHANGED <<method, clients, clientsNull, idx, results, successCount,
                 failureCount, response, inflight, calls, delays, transport,
                 obtained>>
  /\ UNCHANGED <<devVars, dashVars, pageVars>>

\* Faulty variant of Catch: the failure is recorded but not counted
Catch_NoCount(e) ==
  /\ results' = Append(results, CaughtResult(clients[idx], e))
  /\ idx' = idx + 1
  /\ pc' = "loop"
  /\ inflight' = inflight \ {idx}
  /\ transport' = Append(transport, [i |-> idx, outcome |-> "threw"])
  /\ UNCHANGED <<method, clients, clientsNull, successCount, failureCount,
                 respOk, response, calls, delays, obtained>>
  /\ UNCHANGED <<devVars, dashVars, pageVars>>

\* Faulty variant of Catch: no inner try/catch, the error reaches line 144
Catch_Rethrow(e) ==
  /\ response' = ErrorReport(500, IF e.isError THEN e.message
                                  ELSE "Server error occurred")
  /\ pc' = "responded"
  /\ inflight' = inflight \ {idx}
  /\ transport' = Append(transport, [i |-> idx, outcome |-> "threw"])
  /\ UNCHANGED <<method, clients, clientsNull, idx, results, successCount,
                 failureCount, respOk, calls, delays, obtained>>
  /\ UNCHANGED <<devVars, dashVars, pageVars>>

\* lines 126-134: the catch block, then the next iteration
Catch(e) ==
  /\ results' = Append(results, CaughtResult(clients[idx], e))
  /\ failureCount' = failureCount + 1
  /\ idx' = idx + 1
  /\ pc' = "loop"
  /\ inflight' = inflight \ {idx}
  /\ transport' = Append(transport, [i |-> idx, outcome |-> "threw"])
  /\ UNCHANGED <<method, clients, clientsNull, successCount, respOk,
                 response, calls, delays, obtained>>
  /\ UNCHANGED <<devVars, dashVars, pageVars>>

\* line 95: the await of fetch rejects
FetchThrows ==
  /\ pc = "fetch"
  /\ \E e \in Thrown : Catch(e)

\* line 101: the await of response.text() rejects
TextThrows ==
  /\ pc = "text"
  /\ \E e \in Thrown : Catch(e)

\* Faulty variant of TextReturns: the timer is started only in the
\* response.ok branch
TextReturns_DelayOnSuccess ==
  /\ pc = "text"
  /\ \E responseData \in Bodies :
       IF respOk
         THEN /\ results' = Append(results, SentResult(clients[idx]))
              /\ successCount' = successCount + 1
              /\ failureCount' = failureCount
              /\ delays' = Append(delays, idx)
              /\ pc' = "delay"
              /\ idx' = idx
         ELSE /\ results' = Append(results,
                                   RejectedResult(clients[idx], responseData))
              /\ failureCount' = failureCount + 1
              /\ successCount' = successCount
              /\ delays' = delays
              /\ pc' = "loop"
              /\ idx' = idx + 1
  /\ inflight' = inflight \ {idx}
  /\ transport' = Append(transport,
                    [i |-> idx, outcome |-> IF respOk THEN "ok" ELSE "notok"])
  /\ UNCHANGED <<method, clients, clientsNull, respOk, response, calls,
                 obtained>>
  /\ UNCHANGED <<devVars, dashVars, pageVars>>

\* lines 101-124: response.text() resolves; the result is recorded and the
\* timer of line 124 is started
TextReturns ==
  /\ pc = "text"
  /\ \E responseData \in Bodies :
       IF respOk
         THEN /\ results' = Append(results, SentResult(clients[idx]))
              /\ successCount' = successCount + 1
              /\ failureCount' = failureCount
         ELSE /\ results' = Append(results,
                                   RejectedResult(clients[idx], responseData))
              /\ failureCount' = failureCount + 1
              /\ successCount' = successCount
  /\ inflight' = inflight \ {idx}
  /\ transport' = Append(transport,
                    [i |-> idx, outcome |-> IF respOk THEN "ok" ELSE "notok"])
  /\ delays' = Append(delays, idx)
  /\ pc' = "delay"
  /\ UNCHANGED <<method, clients, clientsNull, idx, respOk, response, calls,
                 obtained>>
  /\ UNCHANGED <<devVars, dashVars, pageVars>>

\* line 124: the timer fires; the loop goes to the next recipient
DelayElapses ==
  /\ pc = "delay"
  /\ idx' = idx + 1
  /\ pc' = "loop"
  /\ UNCHANGED <<method, clients, clientsNull, results, successCount,
                 failureCount, respOk, response, inflight, calls, delays,
                 transport, obtained>>
  /\ UNCHANGED <<devVars, dashVars, pageVars>>

\* lines 137-142: the loop is over
Respond ==
  /\ pc = "loop"
  /\ idx > Len(clients)
  /\ response' = Report
  /\ pc' = "responded"
  /\ UNCHANGED <<method, clients, clientsNull, idx, results, successCount,
                 failureCount, respOk, inflight, calls, delays, transport,
                 obtained>>
  /\ UNCHANGED <<devVars, dashVars, pageVars>>

\* ---------------------------------------------------------------------
\* Dates.  A DATE column, and the 'YYYY-MM-DD' string supabase returns for
\* it, is the number YYYYMMDD (whose order is the order of the strings);
\* NULL is NullDate.
\* ---------------------------------------------------------------------
NullDate == 0

MkDate(y, m, d) == y * 10000 + m * 100 + d
YearOf(date) == date \div 10000
MonthOf(date) == (date \div 100) % 100
DayOf(date) == date % 100

IsLeap(y) == ((y % 4) = 0 /\ (y % 100) # 0) \/ (y % 400) = 0

DaysInMonth(y, m) ==
  IF m = 2 THEN (IF IsLeap(y) THEN 29 ELSE 28)
  ELSE IF m \in { 4, 6, 9, 11 } THEN 30 ELSE 31

\* Faulty variant of AddMonths: the month wraps around without a carry to
\* the year
AddMonths_NoYearCarry(date, n) ==
  LET total == MonthOf(date) - 1 + n
      y == YearOf(date)
      m == (total % 12) + 1
      last == DaysInMonth(y, m)
  IN  MkDate(y, m, IF DayOf(date) > last THEN last ELSE DayOf(date))

\* date + INTERVAL 'n months' cast to DATE: the month is advanced and the
\* day of month is cut down to the length of the target month
AddMonths(date, n) ==
  LET total == MonthOf(date) - 1 + n
      y == YearOf(date) + (total \div 12)
      m == (total % 12) + 1
      last == DaysInMonth(y, m)
  IN  MkDate(y, m, IF DayOf(date) > last THEN last ELSE DayOf(date))

\* leap years in 1..y
LeapsThrough(y) == (y \div 4) - (y \div 100) + (y \div 400)

RECURSIVE DaysBeforeMonth(_, _)
DaysBeforeMonth(y, m) ==
  IF m = 1 THEN 0 ELSE DaysBeforeMonth(y, m - 1) + DaysInMonth(y, m - 1)

\* days from 1970-01-01 to the date
EpochDay(date) ==
  365 * (YearOf(date) - 1970) + LeapsThrough(YearOf(date) - 1)
    - LeapsThrough(1969) + DaysBeforeMonth(YearOf(date), MonthOf(date))
    + DayOf(date) - 1

\* new Date('YYYY-MM-DD').getTime(): midnight UTC of the date, counted in
\* ticks (getTime counts milliseconds; a tick is 1/TicksPerDay of a day)
DateTime(date) == EpochDay(date) * TicksPerDay

\* new Date().getTime() for a clock reading [date, tod]: UTC date and the
\* ticks since its midnight
ClockTime(clock) == DateTime(clock.date) + clock.tod

DaySamples == { 1, 15, 28, 29, 30, 31 }

Dates ==
  { dt \in { MkDate(y, m, d) : y \in FirstYear..(FirstYear + YearSpan - 1),
                               m \in 1..12, d \in DaySamples } :
      DayOf(dt) <= DaysInMonth(YearOf(dt), MonthOf(dt)) }

\* ---------------------------------------------------------------------
\* public.devices (presko_migration.sql)
\* ---------------------------------------------------------------------
\* Faulty variant of DueAfter: a NULL cleaning date is coalesced to the epoch
DueAfter_Coalesce(last_cleaning_date, months) ==
  IF last_cleaning_date = NullDate THEN AddMonths(MkDate(1970, 1, 1), months)
  ELSE AddMonths(last_cleaning_date, months)

\* a generated due column: NULL when last_cleaning_date is NULL
DueAfter(last_cleaning_date, months) ==
  IF last_cleaning_date = NullDate THEN NullDate
  ELSE AddMonths(last_cleaning_date, months)

\* a stored row: the three due columns are GENERATED ALWAYS
DeviceRow(last_cleaning_date, last_repair_date) ==
  [ last_cleaning_date |-> last_cleaning_date,
    due_3_months |-> DueAfter(last_cleaning_date, 3),
    due_4_months |-> DueAfter(last_cleaning_date, 4),
    due_6_months |-> DueAfter(last_cleaning_date, 6),
    last_repair_date |-> last_repair_date ]

DeviceRows ==
  { DeviceRow(c, r) : c \in Dates \cup {NullDate},
                      r \in { NullDate, MkDate(FirstYear, 1, 15) } }

Clocks == [ date : Dates, tod : 0..(TicksPerDay - 1) ]

\* ---------------------------------------------------------------------
\* getDeviceStatus (ClientDevicesTable.tsx)
\* ---------------------------------------------------------------------
Truthy(date) == date # NullDate

MinOf(S) == CHOOSE x \in S : \A y \in S : x <= y

\* lines 55-57: the times of the due dates that are set
DueTimes(dev) ==
  { DateTime(d) : d \in { e \in { dev.due_3_months, dev.due_4_months,
                                   dev.due_6_months } : Truthy(e) } }

\* Faulty variant of getDeviceStatus: the due dates are looked at before
\* the repair date
getDeviceStatus_DueFirst(dev, clock) ==
  IF Truthy(dev.due_3_months) \/ Truthy(dev.due_4_months)
       \/ Truthy(dev.due_6_months)
    THEN IF MinOf(DueTimes(dev)) < ClockTime(clock) THEN "due"
         ELSE "maintain"
  ELSE IF Truthy(dev.last_repair_date) THEN "repair"
  ELSE "scheduled"

\* Faulty variant of getDeviceStatus: a device without a cleaning date
\* falls to "no-service", a state the table can render (line 126)
getDeviceStatus_NoService(dev, clock) ==
  IF Truthy(dev.last_repair_date) THEN "repair"
  ELSE IF Truthy(dev.due_3_months) \/ Truthy(dev.due_4_months)
            \/ Truthy(dev.due_6_months)
    THEN IF MinOf(DueTimes(dev)) < ClockTime(clock) THEN "due"
         ELSE "maintain"
  ELSE IF ~Truthy(dev.last_cleaning_date) THEN "no-service"
  ELSE "scheduled"

\* lines 50-70; `clock` is what new Date() reads at line 54.  The sort of
\* line 59 puts the least time first.
getDeviceStatus(dev, clock) ==
  IF Truthy(dev.last_repair_date) THEN "repair"
  ELSE IF Truthy(dev.due_3_months) \/ Truthy(dev.due_4_months)
            \/ Truthy(dev.due_6_months)
    THEN IF MinOf(DueTimes(dev)) < ClockTime(clock) THEN "due"
         ELSE "maintain"
  ELSE IF ~Truthy(dev.last_cleaning_date) THEN "scheduled"
  ELSE "scheduled"

\* lines 117-118: a row of the table is rendered
Render ==
  /\ pc = "idle"
  /\ status' = getDeviceStatus(device, now)
  /\ UNCHANGED <<device, now>>
  /\ UNCHANGED <<smsVars, dashVars, pageVars>>

\* ---------------------------------------------------------------------
\* Admin dashboard: the rows handed to the two cards
\* ---------------------------------------------------------------------
\* device id, display name, client name and location name of a row.  The
\* names are free text; a hyphen can occur in them.
DeviceCells ==
  { [id |-> "d1", name |-> "AC",    client_name |-> "Ana",
     location_name |-> "Home"],
    [id |-> "d1", name |-> "Split", client_name |-> "Ana",
     location_name |-> "Home"],
    [id |-> "d1", name |-> "AC",    client_name |-> "Ana-Lee",
     location_name |-> "Home"],
    [id |-> "d2", name |-> "AC",    client_name |-> "Ana",
     location_name |-> "Lee-Home"],
    [id |-> "d1", name |-> "AC",    client_name |-> "Ana",
     location_name |-> "Lee-Home"] }

\* interval kind and due date of a row
DueCells ==
  { [due_type |-> "due_3_months", due_date |-> MkDate(FirstYear, 1, 15)],
    [due_type |-> "due_3_months", due_date |-> MkDate(FirstYear, 1, 28)],
    [due_type |-> "due_4_months", due_date |-> MkDate(FirstYear, 1, 28)],
    [due_type |-> "due_6_months", due_date |-> MkDate(FirstYear, 1, 28)] }

DashRows ==
  { [id |-> d.id, name |-> d.name, client_name |-> d.client_name,
     location_name |-> d.location_name, due_type |-> o.due_type,
     due_date |-> o.due_date] : d \in DeviceCells, o \in DueCells }

DashLists == UNION { [1..n -> DashRows] : n \in 0..MaxItems }

\* new Date() while a card is rendered: after every due date of DueCells
DashClocks ==
  { [date |-> MkDate(FirstYear, 2, 1), tod |-> t] : t \in { 0, 1 } }

\* `${a}-${b}`
Joined(a, b) == a \o "-" \o b

\* Math.ceil(a / b) for b > 0
CeilDiv(a, b) == -((-a) \div b)

\* ---------------------------------------------------------------------
\* DevicesOverdueCard.tsx: groupedDevices and clientGroups.  A group is
\* [key, client_name, location_name, devices]; its devices are the entries
\* [key, item] of the Map, in insertion order; item is the position of the
\* retained row in `devs` (the Map holds the row objects themselves).
\* ---------------------------------------------------------------------
\* lines 31-35
getServicePriority(dueType) ==
  IF dueType = "due_6_months" THEN 3
  ELSE IF dueType = "due_4_months" THEN 2
  ELSE 1

\* lines 49-53 and 110-113: Math.ceil((today - due) / one day)
getDaysOverdue(due_date, today) ==
  CeilDiv(ClockTime(today) - DateTime(due_date), TicksPerDay)

\* Faulty variant of Replaces: days overdue are compared before the priority
Replaces_DaysFirst(current, existing, today) ==
  \/ getDaysOverdue(current.due_date, today)
       > getDaysOverdue(existing.due_date, today)
  \/ /\ getDaysOverdue(current.due_date, today)
          = getDaysOverdue(existing.due_date, today)
     /\ getServicePriority(current.due_type)
          > getServicePriority(existing.due_type)

\* Faulty variant of Replaces: < for > at line 55
Replaces_FewerDays(current, existing, today) ==
  \/ getServicePriority(current.due_type)
       > getServicePriority(existing.due_type)
  \/ /\ getServicePriority(current.due_type)
          = getServicePriority(existing.due_type)
     /\ getDaysOverdue(current.due_date, today)
          < getDaysOverdue(existing.due_date, today)

\* Faulty variant of Replaces: >= for > at line 55
Replaces_OnTie(current, existing, today) ==
  \/ getServicePriority(current.due_type)
       > getServicePriority(existing.due_type)
  \/ /\ getServicePriority(current.due_type)
          = getServicePriority(existing.due_type)
     /\ getDaysOverdue(current.due_date, today)
          >= getDaysOverdue(existing.due_date, today)

\* Faulty variant of Replaces: only the priority is compared
Replaces_PriorityOnly(current, existing, today) ==
  getServicePriority(current.due_type)
    > getServicePriority(existing.due_type)

\* lines 41-57: the row `current` takes the place of the retained `existing`
Replaces(current, existing, today) ==
  \/ getServicePriority(current.due_type)
       > getServicePriority(existing.due_type)
  \/ /\ getServicePriority(current.due_type)
          = getServicePriority(existing.due_type)
     /\ getDaysOverdue(current.due_date, today)
          > getDaysOverdue(existing.due_date, today)

\* position of the entry with the key in a sequence of keyed records, 0 when
\* there is none
KeyPos(seq, key) ==
  IF \E k \in 1..Len(seq) : seq[k].key = key
    THEN CHOOSE k \in 1..Len(seq) : seq[k].key = key
    ELSE 0

\* the sequence without its element at position at
RemoveAt(seq, at) ==
  [k \in 1..Len(seq) - 1 |-> IF k < at THEN seq[k] ELSE seq[k + 1]]

\* Faulty variant of MapPut: a replaced entry is deleted and set again, which
\* moves it behind the other entries
MapPut_MoveToEnd(map, key, devs, i, today) ==
  LET at == KeyPos(map, key)
  IN  IF at = 0 THEN Append(map, [key |-> key, item |-> i])
      ELSE IF Replaces(devs[i], devs[map[at].item], today)
        THEN Append(RemoveAt(map, at), [key |-> key, item |-> i])
      ELSE map

\* lines 28-59: Map.get, then Map.set when the key is new or the row replaces
\* the retained one; Map.set on a key that exists keeps its position
MapPut(map, key, devs, i, today) ==
  LET at == KeyPos(map, key)
  IN  IF at = 0 THEN Append(map, [key |-> key, item |-> i])
      ELSE IF Replaces(devs[i], devs[map[at].item], today)
        THEN [map EXCEPT ![at].item = i]
      ELSE map

\* lines 18-61: one call of the reducer, for the row at position i
OverdueStep(acc, devs, i, today) ==
  LET dev == devs[i]
      clientKey == Joined(dev.client_name, dev.location_name)
      acc1 == IF KeyPos(acc, clientKey) = 0
                THEN Append(acc, [key |-> clientKey,
                                  client_name |-> dev.client_name,
                                  location_name |-> dev.location_name,
                                  devices |-> <<>>])
                ELSE acc
      g == KeyPos(acc1, clientKey)
      deviceKey == Joined(dev.id, dev.name)
  IN  [acc1 EXCEPT ![g].devices = MapPut(@, deviceKey, devs, i, today)]

RECURSIVE OverdueFold(_, _, _, _)
OverdueFold(acc, devs, i, today) ==
  IF i > Len(devs) THEN acc
  ELSE OverdueFold(OverdueStep(acc, devs, i, today), devs, i + 1, today)

\* lines 17-68: devices.reduce(..., {}), then Object.values (the keys, which
\* all hold a hyphen, are listed in insertion order).  Every comparison of
\* lines 49-55 reads the clock once for both rows, so one reading stands
\* for all of them.
groupedDevices(devs, today) == OverdueFold(<<>>, devs, 1, today)

\* ---------------------------------------------------------------------
\* DevicesDueCard.tsx: groupedClients.  A group is [key, clientName,
\* locationName, devices, earliestDueDate, totalDevices]; its devices are
\* positions of rows of `devs`, in push order.
\* ---------------------------------------------------------------------
\* Faulty variant of DueSoonStep: the earliest due date is never updated
DueSoonStep_FirstDue(acc, devs, i) ==
  LET dev == devs[i]
      key == Joined(dev.client_name, dev.location_name)
      acc1 == IF KeyPos(acc, key) = 0
                THEN Append(acc, [key |-> key,
                                  clientName |-> dev.client_name,
                                  locationName |-> dev.location_name,
                                  devices |-> <<>>,
                                  earliestDueDate |-> dev.due_date,
                                  totalDevices |-> 0])
                ELSE acc
      g == KeyPos(acc1, key)
      pushed == Append(acc1[g].devices, i)
  IN  [acc1 EXCEPT ![g].devices = pushed,
                   ![g].totalDevices = Len(pushed)]

\* lines 82-103: one call of the forEach callback, for the row at position i.
\* Line 100 compares the 'YYYY-MM-DD' strings, whose order is that of the
\* numbers YYYYMMDD.
DueSoonStep(acc, devs, i) ==
  LET dev == devs[i]
      key == Joined(dev.client_name, dev.location_name)
      acc1 == IF KeyPos(acc, key) = 0
                THEN Append(acc, [key |-> key,
                                  clientName |-> dev.client_name,
                                  locationName |-> dev.location_name,
                                  devices |-> <<>>,
                                  earliestDueDate |-> dev.due_date,
                                  totalDevices |-> 0])
                ELSE acc
      g == KeyPos(acc1, key)
      pushed == Append(acc1[g].devices, i)
  IN  [acc1 EXCEPT ![g].devices = pushed,
                   ![g].totalDevices = Len(pushed),
                   ![g].earliestDueDate =
                     IF dev.due_date < @ THEN dev.due_date ELSE @]

RECURSIVE DueSoonFold(_, _, _)
DueSoonFold(acc, devs, i) ==
  IF i > Len(devs) THEN acc
  ELSE DueSoonFold(DueSoonStep(acc, devs, i), devs, i + 1)

\* Faulty variant of ComesBefore: the comparator of line 106 with a and b
\* exchanged
ComesBefore_Descending(a, b) ==
  DateTime(b.earliestDueDate) - DateTime(a.earliestDueDate) < 0

\* lines 105-107: the comparator puts a before b when it is negative
ComesBefore(a, b) ==
  DateTime(a.earliestDueDate) - DateTime(b.earliestDueDate) < 0

\* Array.prototype.sort is stable: g goes before the first group that it
\* comes before, after all others
RECURSIVE InsertSorted(_, _)
InsertSorted(sorted, g) ==
  IF sorted = <<>> THEN <<g>>
  ELSE IF ComesBefore(g, Head(sorted)) THEN <<g>> \o sorted
  ELSE <<Head(sorted)>> \o InsertSorted(Tail(sorted), g)

RECURSIVE SortGroups(_, _)
SortGroups(sorted, rest) ==
  IF rest = <<>> THEN sorted
  ELSE SortGroups(InsertSorted(sorted, Head(rest)), Tail(rest))

\* lines 79-108
groupedClients(devs) == SortGroups(<<>>, DueSoonFold(<<>>, devs, 1))

\* DevicesOverdueCard is rendered (lines 17-68)
RenderOverdue ==
  /\ pc = "idle"
  /\ card = "overdue"
  /\ overdueGroups' = groupedDevices(devices, now)
  /\ grouped' = TRUE
  /\ UNCHANGED <<card, devices, dueGroups>>
  /\ UNCHANGED <<smsVars, devVars, pageVars>>

\* DevicesDueCard is rendered (lines 79-108)
RenderDueSoon ==
  /\ pc = "idle"
  /\ card = "dueSoon"
  /\ dueGroups' = groupedClients(devices)
  /\ grouped' = TRUE
  /\ UNCHANGED <<card, devices, overdueGroups>>
  /\ UNCHANGED <<smsVars, devVars, pageVars>>

\* ---------------------------------------------------------------------
\* ClientDevicesTable.tsx: pagination
\* ---------------------------------------------------------------------
\* line 33: the default of the itemsPerPage prop
itemsPerPage == 5

\* line 37: Math.ceil(devices.length / itemsPerPage) || 1
totalPages ==
  IF CeilDiv(deviceCount, itemsPerPage) = 0
    THEN 1
    ELSE CeilDiv(deviceCount, itemsPerPage)

\* line 38
startIndex == (currentPage - 1) * itemsPerPage

\* line 39: the length of devices.slice(startIndex, startIndex + itemsPerPage)
paginatedCount ==
  IF startIndex >= deviceCount THEN 0
  ELSE IF startIndex + itemsPerPage <= deviceCount THEN itemsPerPage
  ELSE deviceCount - startIndex

\* lines 161-165: a click on Previous; the buttons are rendered when there
\* is more than one page (line 161), and this one is disabled on page 1
ClickPrevious ==
  /\ pc = "idle"
  /\ totalPages > 1
  /\ currentPage # 1
  /\ currentPage' = IF currentPage - 1 < 1 THEN 1 ELSE currentPage - 1
  /\ UNCHANGED deviceCount
  /\ UNCHANGED <<smsVars, devVars, dashVars>>

\* lines 176-177: a click on Next, disabled on the page totalPages
ClickNext ==
  /\ pc = "idle"
  /\ totalPages > 1
  /\ currentPage # totalPages
  /\ currentPage' = IF currentPage + 1 > totalPages THEN totalPages
                    ELSE currentPage + 1
  /\ UNCHANGED deviceCount
  /\ UNCHANGED <<smsVars, devVars, dashVars>>

\* lines 26-35: the parent renders the table with another devices list; the
\* state of line 35 is kept
DevicesChange ==
  /\ pc = "idle"
  /\ \E n \in 0..MaxDevices :
       /\ n # deviceCount
       /\ deviceCount' = n
  /\ UNCHANGED currentPage
  /\ UNCHANGED <<smsVars, devVars, dashVars>>

\* ---------------------------------------------------------------------
\* Specifications
\* ---------------------------------------------------------------------
\* no table is rendered while the handler runs
DevIdle ==
  /\ device = DeviceRow(NullDate, NullDate)
  /\ now = [ date |-> MkDate(FirstYear, 1, 1), tod |-> 0 ]
  /\ status = "unset"

\* no request is handled while the table is rendered
SmsIdle ==
  /\ method = "POST"
  /\ pc = "idle"
  /\ clients = <<>>
  /\ clientsNull = FALSE
  /\ idx = 1
  /\ results = <<>>
  /\ successCount = 0
  /\ failureCount = 0
  /\ respOk = FALSE
  /\ response = NoResponse
  /\ obtained = FALSE
  /\ inflight = {}
  /\ calls = <<>>
  /\ delays = <<>>
  /\ transport = <<>>

\* the devices table is not shown
PageIdle ==
  /\ deviceCount = 0
  /\ currentPage = 1

\* no dashboard card is rendered
DashIdle ==
  /\ card = "none"
  /\ devices = <<>>
  /\ grouped = FALSE
  /\ overdueGroups = <<>>
  /\ dueGroups = <<>>

Init == SmsInit /\ DevIdle /\ DashIdle /\ PageIdle

DashInit ==
  /\ SmsIdle
  /\ PageIdle
  /\ device = DeviceRow(NullDate, NullDate)
  /\ status = "unset"
  /\ card \in { "overdue", "dueSoon" }
  \* groupedClients reads no clock: one reading stands for all
  /\ now \in IF card = "overdue"
              THEN DashClocks
              ELSE { [date |-> MkDate(FirstYear, 2, 1), tod |-> 0] }
  /\ devices \in DashLists
  /\ grouped = FALSE
  /\ overdueGroups = <<>>
  /\ dueGroups = <<>>

DashNext == RenderOverdue \/ RenderDueSoon

SpecDash == DashInit /\ [][DashNext]_vars

\* line 35: useState(1)
PageInit ==
  /\ SmsIdle
  /\ DevIdle
  /\ DashIdle
  /\ deviceCount \in 0..MaxDevices
  /\ currentPage = 1

PageNext == ClickPrevious \/ ClickNext \/ DevicesChange

SpecPages == PageInit /\ [][PageNext]_vars

StatusInit ==
  /\ SmsIdle
  /\ DashIdle
  /\ PageIdle
  /\ device \in DeviceRows
  /\ now \in Clocks
  /\ status = "unset"

StatusNext == Render

SpecStatus == StatusInit /\ [][StatusNext]_vars

Next ==
  \/ MethodNotAllowed
  \/ GetClients
  \/ GetClientsThrows
  \/ SkipIneligible
  \/ SendSMS
  \/ FetchReturns
  \/ FetchThrows
  \/ TextReturns
  \/ TextThrows
  \/ DelayElapses
  \/ Respond

Spec == Init /\ [][Next]_vars

\* The event loop resumes the handler after every await, the timer of
\* line 124 fires, and every transport call returns or throws.
Fairness ==
  /\ WF_vars(SkipIneligible \/ SendSMS \/ Respond)
  /\ WF_vars(FetchReturns \/ FetchThrows)
  /\ WF_vars(TextReturns \/ TextThrows)
  /\ WF_vars(DelayElapses)

FairSpec == Init /\ [][Next]_vars /\ Fairness

\* =====================================================================
\* Properties of the status classifier
\* =====================================================================
Rendered == status # "unset"

DueDates(dev) ==
  { e \in { dev.due_3_months, dev.due_4_months, dev.due_6_months } :
      e # NullDate }

\* the nearest due date, in calendar order
NearestDue(dev) == MinOf(DueDates(dev))

\* C8: a device whose last_repair_date is non-null is classified repair,
\* whatever its three due dates are.
C8_RepairOverrides ==
  (Rendered /\ device.last_repair_date # NullDate) => status = "repair"

C8_Witness ==
  /\ Rendered
  /\ device.last_repair_date # NullDate
  /\ device.due_6_months # NullDate
  /\ device.due_6_months < now.date

\* C9: with due dates derived from last_cleaning_date, the classification
\* is scheduled if and only if last_repair_date and last_cleaning_date are
\* both null.
C9_ScheduledIffNoHistory ==
  Rendered =>
    (status = "scheduled" <=>
       (device.last_repair_date = NullDate
          /\ device.last_cleaning_date = NullDate))

C9_Witness ==
  /\ Rendered
  /\ status = "scheduled"
  /\ device.last_cleaning_date = NullDate

\* the case of C10: no repair date and at least one due date
HasDueOnly(dev) == dev.last_repair_date = NullDate /\ DueDates(dev) # {}

\* C10: for a device with no repair date and at least one due date, the
\* classification is due exactly when the nearest due date is on a calendar
\* day strictly before the day of now, maintain otherwise; a device whose
\* nearest due date is today is maintain at every time of day.
C10_DateOnly ==
  (Rendered /\ HasDueOnly(device)) =>
    /\ status = "due" <=> NearestDue(device) < now.date
    /\ status # "due" => status = "maintain"

\* C11: the three due dates are all null when last_cleaning_date is null and
\* all non-null otherwise, and when non-null they satisfy
\* due_short <= due_medium <= due_long, month-end and leap-day dates included.
C11_DueDatesOrdered ==
  IF device.last_cleaning_date = NullDate
    THEN /\ device.due_3_months = NullDate
         /\ device.due_4_months = NullDate
         /\ device.due_6_months = NullDate
    ELSE /\ device.due_3_months # NullDate
         /\ device.due_4_months # NullDate
         /\ device.due_6_months # NullDate
         /\ device.last_cleaning_date < device.due_3_months
         /\ device.due_3_months <= device.due_4_months
         /\ device.due_4_months <= device.due_6_months
         /\ EpochDay(device.due_3_months) <= EpochDay(device.due_4_months)
         /\ EpochDay(device.due_4_months) <= EpochDay(device.due_6_months)

\* a cleaning date on a leap day or a month end, whose due dates are cut
\* down to the length of their months
C11_Witness ==
  /\ Rendered
  /\ DayOf(device.last_cleaning_date) = 30
  /\ DayOf(device.due_3_months) = 29
  /\ DayOf(device.due_4_months) = 30
  /\ DayOf(device.due_6_months) = 30
  /\ YearOf(device.due_3_months) = YearOf(device.last_cleaning_date) + 1

\* the month of a date, counted from year 0
MonthIndex(date) == YearOf(date) * 12 + MonthOf(date)

\* b is a plus one calendar month: the next month, on a's day of month or,
\* where the next month is shorter, on its last day
OneMonthAfter(a, b) ==
  /\ MonthIndex(b) = MonthIndex(a) + 1
  /\ DayOf(b) = IF DayOf(a) > DaysInMonth(YearOf(b), MonthOf(b))
                  THEN DaysInMonth(YearOf(b), MonthOf(b))
                  ELSE DayOf(a)

HasSchedule == device.last_cleaning_date # NullDate

\* C12: for every last_cleaning_date d, adding one calendar month to
\* due_short(d) gives due_medium(d), also when d is a month-end day that is
\* cut down in the target month.
C12_OneMonthApart ==
  HasSchedule => OneMonthAfter(device.due_3_months, device.due_4_months)

\* the day of d exists in the month three months after d
ShortUnclamped ==
  DayOf(device.due_3_months) = DayOf(device.last_cleaning_date)

\* C12 amended: due_medium(d) is d plus four calendar months and lies in the
\* calendar month after that of due_short(d); adding one calendar month to
\* due_short(d) gives due_medium(d) exactly when the day of d exists in the
\* month of due_short(d); when the day was cut down there, due_medium(d) is
\* later in its month than due_short(d) plus one month.
C12_OneMonthApartUnclamped ==
  HasSchedule =>
    /\ MonthIndex(device.due_4_months)
         = MonthIndex(device.last_cleaning_date) + 4
    /\ MonthIndex(device.due_4_months) = MonthIndex(device.due_3_months) + 1
    /\ ShortUnclamped <=>
         OneMonthAfter(device.due_3_months, device.due_4_months)
    /\ ~ShortUnclamped =>
         DayOf(device.due_4_months) > DayOf(device.due_3_months)

\* a month-end cleaning date whose due_short is cut down and whose
\* due_medium is not
C12_Witness ==
  /\ Rendered
  /\ HasSchedule
  /\ ~ShortUnclamped
  /\ DayOf(device.due_4_months) > DayOf(device.due_3_months)

\* =====================================================================
\* Properties of the notification dispatcher
\* =====================================================================
Range(s) == { s[k] : k \in 1..Len(s) }

\* the handler has answered a POST with its campaign report
RunComplete == pc = "responded" /\ obtained /\ response.status = 200

\* result r is the entry of recipient c: its mobile and name are c's, with
\* the fallbacks of lines 52-53, 107-108 and 128-129 (the rows of
\* Recipients differ pairwise in this pair)
BelongsTo(r, c) ==
  /\ r.mobile = OrElse(c.mobile, "N/A")
  /\ r.name = OrElse(c.name, "Unknown")

\* C1: when a campaign run completes, successCount + failureCount is the
\* number of input recipients, results has one entry per recipient, and the
\* i-th result belongs to the i-th recipient.
C1_ReportCoversInput ==
  RunComplete =>
    /\ response.successCount + response.failureCount = Len(clients)
    /\ Len(response.results) = Len(clients)
    /\ response.totalClients = Len(clients)
    /\ \A i \in 1..Len(clients) : BelongsTo(response.results[i], clients[i])

C1_Witness ==
  /\ RunComplete
  /\ Len(clients) >= 3
  /\ clients[1] # clients[2]
  /\ response.successCount >= 1
  /\ response.failureCount >= 1
  /\ \E i \in 1..Len(clients) : Ineligible(clients[i])

TransportFailures == { "notok", "threw" }

\* a step in which a transport call ends in a failure
TransportFails ==
  /\ Len(transport') = Len(transport) + 1
  /\ transport'[Len(transport')].outcome \in TransportFailures

C2_Step ==
  TransportFails =>
    /\ Len(results') = Len(results) + 1
    /\ SubSeq(results', 1, Len(results)) = results
    /\ results'[Len(results')].success = FALSE
    /\ results'[Len(results')].error # NoField
    /\ BelongsTo(results'[Len(results')], clients[idx])
    /\ failureCount' = failureCount + 1
    /\ successCount' = successCount
    /\ response' = NoResponse
    /\ pc' \in { "loop", "delay" }

C2_BatchGoesOn ==
  (pc = "responded" /\ transport # <<>>) =>
    /\ response.status = 200
    /\ Len(response.results) = Len(clients)

\* C2: a transport failure for one recipient (a non-success response or a
\* thrown error) yields exactly one result with success = false and an error
\* text, adds one to failureCount, leaves successCount alone, and the run
\* still processes every later recipient.
C2_FailureIsolated == [][C2_Step]_vars /\ []C2_BatchGoesOn

C2_Witness ==
  /\ RunComplete
  /\ \E j, k \in 1..Len(transport) :
       /\ transport[j].outcome = "threw"
       /\ transport[k].outcome = "notok"
       /\ transport[j].i < Len(clients)
       /\ transport[k].i < Len(clients)

MissingReason == "Missing mobile number or QR code"

\* C3: a recipient with an empty mobile number or an empty profile reference
\* is recorded as a failure with a descriptive reason; no transport call is
\* made for it and no inter-send delay is applied for it.
C3_IneligibleSkipped ==
  \A i \in 1..Len(clients) :
    Ineligible(clients[i]) =>
      /\ i \notin Range(calls)
      /\ i \notin Range(delays)
      /\ i \notin inflight
      /\ i < idx =>
           /\ Len(results) >= i
           /\ results[i].success = FALSE
           /\ results[i].error = MissingReason

C3_Witness ==
  /\ RunComplete
  /\ \E i, j \in 1..Len(clients) :
       /\ i < j
       /\ clients[i].mobile = ""
       /\ clients[j].mobile # "" /\ clients[j].qr_code = ""
  /\ calls # <<>>

\* recipient i had a transport call that returned a success response
Sent(i) ==
  \E k \in 1..Len(transport) :
    transport[k].i = i /\ transport[k].outcome = "ok"

\* C4: the inter-send delay is applied after each successful transport call
\* that is followed by another recipient, and is never applied after the
\* last recipient of the list has been processed.
C4_NoDelayAfterLast ==
  /\ \A i \in 1..Len(clients) :
       (Sent(i) /\ i < Len(clients)) => i \in Range(delays)
  /\ \A k \in 1..Len(delays) : delays[k] < Len(clients)

\* number of recipients whose iteration has begun
Started == IF pc \in { "fetch", "text", "delay" } THEN idx ELSE idx - 1

EligibleUpTo(n) ==
  SelectSeq([i \in 1..n |-> i], LAMBDA i : ~Ineligible(clients[i]))

\* C5: at most one transport call is in flight at any time, and the calls
\* are issued in the order of the eligible recipients of the input: a call
\* is issued only after every earlier call has returned or thrown.
C5_OneAtATime ==
  /\ Cardinality(inflight) <= 1
  /\ calls = EligibleUpTo(Started)
  /\ \A k \in 1..Len(calls) :
       k < Len(calls) =>
         /\ calls[k] \notin inflight
         /\ \E t \in 1..Len(transport) : transport[t].i = calls[k]

C5_Witness ==
  /\ Len(calls) >= 2
  /\ inflight = { calls[Len(calls)] }
  /\ \E i \in 1..Len(clients) : Ineligible(clients[i]) /\ i < calls[2]

\* C6: a run over an empty recipient list returns successCount 0,
\* failureCount 0 and an empty results list, and makes no transport call.
C6_EmptyList ==
  (obtained /\ Len(clients) = 0) =>
    /\ pc = "responded"
    /\ response.status = 200
    /\ response.successCount = 0
    /\ response.failureCount = 0
    /\ response.results = <<>>
    /\ calls = <<>>
    /\ inflight = {}

C6_Witness == obtained /\ ~clientsNull /\ Len(clients) = 0 /\ pc = "responded"

\* the complete report: one entry per input recipient
CompleteReport ==
  /\ RunComplete
  /\ response.totalClients = Len(clients)
  /\ Len(response.results) = Len(clients)
  /\ response.successCount + response.failureCount = Len(clients)

\* C7: once the recipient list has been obtained, the run terminates with a
\* complete report over every input recipient; no per-recipient failure
\* makes it end with an error response or a partial report.
C7_AlwaysCompletes ==
  /\ obtained ~> CompleteReport
  /\ [](obtained => response.status \in { 0, 200 })
  /\ []((obtained /\ pc = "responded") => CompleteReport)

C7_Witness ==
  /\ CompleteReport
  /\ Len(clients) >= 3
  /\ \E j \in 1..Len(transport) : transport[j].outcome = "threw"
  /\ \E j \in 1..Len(transport) : transport[j].outcome = "notok"
  /\ \E i \in 1..Len(clients) : Ineligible(clients[i])

\* ---------------------------------------------------------------------
\* Dashboard cards: properties of the grouping
\* ---------------------------------------------------------------------
OverdueDone == card = "overdue" /\ grouped
DueSoonDone == card = "dueSoon" /\ grouped

Rows == 1..Len(devices)

\* the entries [group, position] of the overdue output
Slots ==
  { <<g, k>> : g \in 1..Len(overdueGroups), k \in 1..MaxItems + 1 }

Entries ==
  { e \in Slots : e[2] <= Len(overdueGroups[e[1]].devices) }

EntryRow(e) == overdueGroups[e[1]].devices[e[2]].item

\* the rows of the input that fall into group g of the overdue output
GroupRows(g) ==
  { i \in Rows :
      Joined(devices[i].client_name, devices[i].location_name)
        = overdueGroups[g].key }

\* the rows of the input that fall into entry e of the overdue output
EntryRows(e) ==
  { i \in GroupRows(e[1]) :
      Joined(devices[i].id, devices[i].name)
        = overdueGroups[e[1]].devices[e[2]].key }

\* the row at position i of the input is shown by the overdue card
Retained(i) == \E e \in Entries : EntryRow(e) = i

Priority(i) == getServicePriority(devices[i].due_type)
Overdue(i) == getDaysOverdue(devices[i].due_date, now)

\* rows i and j describe one device record: same id, display name, client
\* and location
SameDevice(i, j) ==
  /\ devices[i].id = devices[j].id
  /\ devices[i].name = devices[j].name
  /\ devices[i].client_name = devices[j].client_name
  /\ devices[i].location_name = devices[j].location_name

\* row r is at least as critical as row i: higher priority, or the same
\* priority and no fewer days overdue
AtLeastAsCritical(r, i) ==
  \/ Priority(r) > Priority(i)
  \/ Priority(r) = Priority(i) /\ Overdue(r) >= Overdue(i)

\* C13: the whole overdue output holds at most one retained obligation per
\* device id, whatever the names the rows of that id carry.
C13_OnePerDevice ==
  OverdueDone =>
    \A e1, e2 \in Entries :
      devices[EntryRow(e1)].id = devices[EntryRow(e2)].id => e1 = e2

\* C14: of two rows of one device with different interval kinds, the one of
\* lower priority is not retained, and the entry of the output that the
\* two rows fall into shows a row of at least the higher priority, whatever
\* the days overdue and the input order.
C14_PriorityWins ==
  OverdueDone =>
    \A i, j \in Rows :
      SameDevice(i, j) /\ Priority(i) > Priority(j) =>
        /\ ~Retained(j)
        /\ \E e \in Entries :
             i \in EntryRows(e) /\ Priority(EntryRow(e)) >= Priority(i)

\* a row of higher priority and fewer days overdue came after a row of the
\* same device and took its place
C14_Witness ==
  /\ OverdueDone
  /\ \E i, j \in Rows :
       /\ i < j
       /\ SameDevice(i, j)
       /\ Priority(j) > Priority(i)
       /\ Overdue(j) < Overdue(i)
       /\ Retained(j)
       /\ ~Retained(i)

\* C15: of two rows of one device with the same interval kind and different
\* days overdue, the one with fewer days is not retained and the entry of
\* the output that the two rows fall into shows a row at least as critical
\* as the other one, whatever the input order.
C15_MoreOverdueWins ==
  OverdueDone =>
    \A i, j \in Rows :
      /\ SameDevice(i, j)
      /\ devices[i].due_type = devices[j].due_type
      /\ Overdue(i) > Overdue(j)
      => /\ ~Retained(j)
         /\ \E e \in Entries :
              i \in EntryRows(e) /\ AtLeastAsCritical(EntryRow(e), i)

\* a row with more days overdue came after a row of the same device and
\* kind and took its place
C15_Witness ==
  /\ OverdueDone
  /\ \E i, j \in Rows :
       /\ i < j
       /\ SameDevice(i, j)
       /\ devices[i].due_type = devices[j].due_type
       /\ Overdue(j) > Overdue(i)
       /\ Retained(j)
       /\ ~Retained(i)

\* the group of the due-soon output that lists row i
DueGroupOf(i) ==
  CHOOSE g \in 1..Len(dueGroups) : i \in Range(dueGroups[g].devices)

\* the group of the overdue output that shows the retained row i
OverdueGroupOf(i) ==
  CHOOSE g \in 1..Len(overdueGroups) :
    \E e \in Entries : e[1] = g /\ EntryRow(e) = i

SamePair(i, j) ==
  /\ devices[i].client_name = devices[j].client_name
  /\ devices[i].location_name = devices[j].location_name

\* C16: two rows are in the same group exactly when their client names are
\* equal and their location names are equal, on both cards.
C16_LiteralPairs ==
  /\ DueSoonDone =>
       \A i, j \in Rows : DueGroupOf(i) = DueGroupOf(j) <=> SamePair(i, j)
  /\ OverdueDone =>
       \A i, j \in { r \in Rows : Retained(r) } :
         OverdueGroupOf(i) = OverdueGroupOf(j) <=> SamePair(i, j)

Members(g) == Range(dueGroups[g].devices)

\* C17: every due-soon group has a member, its earliestDueDate is the least
\* due date of its members, its totalDevices is the number of its members,
\* and every row of the input is a member of exactly one group, once.
C17_EarliestAndCount ==
  DueSoonDone =>
    /\ \A g \in 1..Len(dueGroups) :
         /\ Members(g) # {}
         /\ Members(g) \subseteq Rows
         /\ dueGroups[g].earliestDueDate
              = MinOf({ devices[i].due_date : i \in Members(g) })
         /\ dueGroups[g].totalDevices = Len(dueGroups[g].devices)
         /\ dueGroups[g].totalDevices = Cardinality(Members(g))
    /\ \A i \in Rows :
         Cardinality({ g \in 1..Len(dueGroups) : i \in Members(g) }) = 1

\* a group of several members whose earliest due date is not that of the
\* row that opened the group
C17_Witness ==
  /\ DueSoonDone
  /\ \E g \in 1..Len(dueGroups) :
       /\ dueGroups[g].totalDevices >= 2
       /\ devices[dueGroups[g].devices[1]].due_date
            > dueGroups[g].earliestDueDate

\* C18: no group of either card shows a device id more than once.
C18_NoRepeatedDevice ==
  /\ DueSoonDone =>
       \A g \in 1..Len(dueGroups) :
         \A k1, k2 \in 1..Len(dueGroups[g].devices) :
           devices[dueGroups[g].devices[k1]].id
             = devices[dueGroups[g].devices[k2]].id => k1 = k2
  /\ OverdueDone =>
       \A e1, e2 \in Entries :
         /\ e1[1] = e2[1]
         /\ devices[EntryRow(e1)].id = devices[EntryRow(e2)].id
         => e1 = e2

\* rows i and j are tied: same priority, same days overdue
Tied(i, j) == Priority(i) = Priority(j) /\ Overdue(i) = Overdue(j)

\* C19: a row that is tied with an earlier row of the same device is not
\* retained.
C19_FirstOfTieKept ==
  OverdueDone =>
    \A i, j \in Rows :
      i < j /\ SameDevice(i, j) /\ Tied(i, j) => ~Retained(j)

\* the first of two tied rows of one device is the retained one
C19_Witness ==
  /\ OverdueDone
  /\ \E i, j \in Rows :
       i < j /\ SameDevice(i, j) /\ Tied(i, j) /\ Retained(i)

\* C20: consecutive due-soon groups are in ascending order of
\* earliestDueDate.
C20_AscendingGroups ==
  DueSoonDone =>
    \A g \in 1..Len(dueGroups) - 1 :
      dueGroups[g].earliestDueDate <= dueGroups[g + 1].earliestDueDate

\* the sort moved a group in front of one that was opened before it
C20_Witness ==
  /\ DueSoonDone
  /\ \E g \in 1..Len(dueGroups) - 1 :
       /\ dueGroups[g].earliestDueDate < dueGroups[g + 1].earliestDueDate
       /\ dueGroups[g].devices[1] > dueGroups[g + 1].devices[1]

\* C21: the groups of the overdue output are in the order of their first
\* rows in the input, and the entries of a group are in the order of their
\* first rows, also when the retained row of an entry is a later one.
C21_InputOrderKept ==
  OverdueDone =>
    /\ \A g1, g2 \in 1..Len(overdueGroups) :
         g1 < g2 => MinOf(GroupRows(g1)) < MinOf(GroupRows(g2))
    /\ \A e1, e2 \in Entries :
         e1[1] = e2[1] /\ e1[2] < e2[2]
           => MinOf(EntryRows(e1)) < MinOf(EntryRows(e2))

\* an entry whose retained row was replaced by a row that comes after the
\* first row of the next entry, and that is still in front of it
C21_Witness ==
  /\ OverdueDone
  /\ \E e1, e2 \in Entries :
       /\ e1[1] = e2[1]
       /\ e1[2] < e2[2]
       /\ EntryRow(e1) > EntryRow(e2)
       /\ EntryRow(e1) # MinOf(EntryRows(e1))

\* the concatenation of a sequence of sequences
RECURSIVE Concat(_)
Concat(seqs) ==
  IF seqs = <<>> THEN <<>> ELSE Head(seqs) \o Concat(Tail(seqs))

\* the overdue groups with the rows they show in the place of positions
ShownOverdue(groups, devs) ==
  [g \in 1..Len(groups) |->
     [groups[g] EXCEPT !.devices =
        [k \in 1..Len(@) |-> [key |-> @[k].key, row |-> devs[@[k].item]]]]]

\* the due-soon groups with the rows they list in the place of positions
ShownDueSoon(groups, devs) ==
  [g \in 1..Len(groups) |->
     [groups[g] EXCEPT !.devices = [k \in 1..Len(@) |-> devs[@[k]]]]]

\* the rows shown by the overdue groups, group after group
FlatOverdue ==
  Concat([g \in 1..Len(overdueGroups) |->
            [k \in 1..Len(overdueGroups[g].devices) |->
               devices[overdueGroups[g].devices[k].item]]])

\* the rows listed by the due-soon groups, group after group
FlatDueSoon ==
  Concat([g \in 1..Len(dueGroups) |->
            [k \in 1..Len(dueGroups[g].devices) |->
               devices[dueGroups[g].devices[k]]]])

\* grouping the rows of the overdue groups again gives the same groups
OverdueIdempotent ==
  ShownOverdue(groupedDevices(FlatOverdue, now), FlatOverdue)
    = ShownOverdue(overdueGroups, devices)

\* grouping the rows of the due-soon groups again gives the same groups,
\* aggregates included
DueSoonIdempotent ==
  ShownDueSoon(groupedClients(FlatDueSoon), FlatDueSoon)
    = ShownDueSoon(dueGroups, devices)

\* C22: on both cards, grouping the members of the groups again gives the
\* same groups with the same members and the same aggregates.
C22_RegroupingIdempotent ==
  /\ OverdueDone => OverdueIdempotent
  /\ DueSoonDone => DueSoonIdempotent

\* ---------------------------------------------------------------------
\* Campaign dispatcher: delays and counters
\* ---------------------------------------------------------------------
\* the finished transport calls that gave a response: fetch resolved and
\* the body was read (lines 95-101); a call whose fetch or whose body read
\* rejects is a call that threw
Responded ==
  { j \in 1..Len(transport) : transport[j].outcome \in { "ok", "notok" } }

\* C23: a delay follows a finished transport call exactly when the call gave
\* a response, successful or not; none follows a call that threw or a
\* recipient that was skipped; there are as many delays as calls that gave a
\* response, at every point of the run.
C23_DelayPerResponse ==
  /\ \A j \in 1..Len(transport) :
       j \in Responded <=> transport[j].i \in Range(delays)
  /\ \A i \in Range(delays) : \E j \in Responded : transport[j].i = i
  /\ Len(delays) = Cardinality(Responded)
  /\ Len(delays) = Cardinality(Range(delays))

\* a finished run with a delay after a successful call, a delay after a
\* rejected one and none after a call that threw
C23_Witness ==
  /\ RunComplete
  /\ \E j \in Responded :
       transport[j].outcome = "ok" /\ transport[j].i \in Range(delays)
  /\ \E j \in Responded :
       transport[j].outcome = "notok" /\ transport[j].i \in Range(delays)
  /\ \E j \in 1..Len(transport) :
       transport[j].outcome = "threw" /\ transport[j].i \notin Range(delays)

\* between two iterations of the loop of line 48 (and after the last one)
BetweenIterations == pc = "loop"

C24_Counted ==
  /\ Len(results) = successCount + failureCount
  /\ BetweenIterations =>
       /\ Len(results) = idx - 1
       /\ \A k \in 1..Len(results) : BelongsTo(results[k], clients[k])

C24_Step ==
  /\ successCount' >= successCount
  /\ failureCount' >= failureCount
  /\ Len(results') >= Len(results)
  /\ SubSeq(results', 1, Len(results)) = results

\* C24: between two loop iterations results has one entry per recipient
\* processed so far and its length is successCount + failureCount; no step
\* of the run lowers a counter or changes or removes a recorded entry.
C24_LoopInvariant == []C24_Counted /\ [][C24_Step]_vars

\* the loop is over after a success, a counted failure and a skipped
\* recipient
C24_Witness ==
  /\ BetweenIterations
  /\ idx = Len(clients) + 1
  /\ Len(results) = 3
  /\ successCount >= 1
  /\ failureCount >= 1
  /\ \E i \in 1..Len(clients) : Ineligible(clients[i])

\* ---------------------------------------------------------------------
\* Overdue card: the retained row as a maximum
\* ---------------------------------------------------------------------
\* the input in the opposite order
Reversed(seq) == [k \in 1..Len(seq) |-> seq[Len(seq) + 1 - k]]

\* the rows that the overdue groups computed from devs show under a group
\* key and an entry key
ShownUnder(groups, devs, groupKey, entryKey) ==
  { devs[groups[p[1]].devices[p[2]].item] :
      p \in { q \in (1..Len(groups)) \X (1..Len(devs)) :
                /\ groups[q[1]].key = groupKey
                /\ q[2] <= Len(groups[q[1]].devices)
                /\ groups[q[1]].devices[q[2]].key = entryKey } }

\* C25: the row an entry of the overdue output retains is one of the rows
\* that fall into the entry and is at least as critical (priority, then days
\* overdue) as each of them; for the input in the opposite order the entry
\* retains a row of the same priority and the same days overdue.
C25_RetainedIsMax ==
  OverdueDone =>
    LET reversed == Reversed(devices)
        reversedGroups == groupedDevices(reversed, now)
    IN  \A e \in Entries :
          LET other == ShownUnder(reversedGroups, reversed,
                                  overdueGroups[e[1]].key,
                                  overdueGroups[e[1]].devices[e[2]].key)
          IN  /\ EntryRow(e) \in EntryRows(e)
              /\ \A i \in EntryRows(e) : AtLeastAsCritical(EntryRow(e), i)
              /\ Cardinality(other) = 1
              /\ \A row \in other :
                   /\ getServicePriority(row.due_type)
                        = Priority(EntryRow(e))
                   /\ getDaysOverdue(row.due_date, now)
                        = Overdue(EntryRow(e))

\* an entry with three rows whose retained row is neither the first nor the
\* last of them in the input: it has a higher priority than both, and fewer
\* days overdue than the last
C25_Witness ==
  /\ OverdueDone
  /\ \E e \in Entries :
       \E i, j \in EntryRows(e) :
         /\ i < EntryRow(e)
         /\ EntryRow(e) < j
         /\ Priority(i) < Priority(EntryRow(e))
         /\ Priority(j) < Priority(EntryRow(e))
         /\ Overdue(j) > Overdue(EntryRow(e))

\* ---------------------------------------------------------------------
\* Devices table: pagination
\* ---------------------------------------------------------------------
\* C26: the current page is one of the pages 1..totalPages, and the page
\* shown has a row whenever the devices list has one.
C26_PageInRange ==
  /\ currentPage \in 1..totalPages
  /\ deviceCount > 0 => paginatedCount > 0

====
